---- MODULE Spec2Model ----
(***************************************************************************)
(* Batch generation and resumability controller of the Riva meta           *)
(* generator (App component + geminiService client), as a state machine.   *)
(*                                                                         *)
(* One action is one JavaScript task of the application (a click handler,  *)
(* a FileReader callback, or the continuation of an awaited service call)  *)
(* together with the React commit that follows it: the batched state       *)
(* updates are applied and the effects whose dependencies changed run.     *)
(***************************************************************************)
EXTENDS Integers, Sequences, FiniteSets, TLC

VARIABLES
    originalData,       \* useState<Product[]>
    processedData,      \* useState<ProcessedProduct[]>
    isLoading,          \* useState<boolean>
    error,              \* useState<string | null>
    file,               \* useState<File | null>
    progress,           \* useState<number>, kept as the fraction num/den (* 100)
    progressMessage,    \* useState<string | null>
    regeneratingSkus,   \* useState<Set<string>>
    customInstructions, \* useState(DEFAULT_AI_INSTRUCTIONS)
    savedSession,       \* useState<SavedSession | null>
    isResumable,        \* useState<boolean>
    isCancelledRef,     \* useRef<boolean>
    localStorage,       \* the item 'riva-meta-generator-session'
    generateClosure,    \* the render captured by the memoized handleGenerate
    jobs,               \* the activations of runGenerationProcess that are suspended in an await
    regenCalls,         \* the activations of handleRegenerateRow: those suspended in an
                        \* await ("pending"), and for each sku how the last one settled
    reader,             \* the FileReader started by handleFileSelect, until its onload fires
    calls,              \* history: the batch requests made by the runs since the last run started
    outcome,            \* history: the state of the latest run
    runKind,            \* history: how the latest run was invoked
    startSnapshot,      \* history: processedData as the latest run began
    uploadSnapshot,     \* history: the data and the stored session before the upload in progress
    budget              \* the user operations still allowed by the bounds

vars == <<originalData, processedData, isLoading, error, file, progress,
          progressMessage, regeneratingSkus, customInstructions, savedSession,
          isResumable, isCancelledRef, localStorage, generateClosure, jobs,
          regenCalls, reader, calls, outcome, runKind, startSnapshot,
          uploadSnapshot, budget>>

----------------------------------------------------------------------------
(* Bounds of the model *)

\* The uploaded files have up to MaxChunks batches of records.
MaxChunks == 2
\* The number of cell edits, row regenerations, page reloads and changes of the
\* instruction text the user makes in all.
MaxUserOps == 1

(* Program constants *)

BATCH_SIZE == 15

NotGenerated == "Error: Not Generated"
NoAIResponseTitle == "Error: No AI Response"
NoAIResponseDescription == "The AI did not provide a response for this item in the batch."
RegenerationFailedTitle == "Error: Regeneration failed"
RegenerationFailedDescription == "Please try again or edit manually."
DEFAULT_AI_INSTRUCTIONS == "default instructions"

----------------------------------------------------------------------------
(* Values *)

\* null / undefined of the various state cells
Null == [null |-> TRUE]
NoError == [kind |-> "none"]
NoMessage == [kind |-> "none"]
\* a JavaScript undefined held in a string-typed field
Undefined == "<undefined>"
\* the values the || operator treats as false
Falsy == {"", Undefined}

\* A row of the uploaded sheet after normalizeData: the sku column, the name
\* column (the row number stands for the name and the pass-through columns).
Row(sku, name) == [sku |-> sku, name |-> name]

Product(r) == Row(ToString(r), ToString(r))

Dataset(n) == [r \in 1..n |-> Product(r)]

\* The sheets the user uploads: one batch, or MaxChunks batches, of distinct
\* skus, the last batch holding two records; a sheet whose second row repeats the sku of the first;
\* a sheet whose second row has an empty sku; a sheet that already has a
\* 'Meta Title' column, as a downloaded result has.
UploadSizes == {2, (MaxChunks - 1) * BATCH_SIZE + 2}

Uploads ==
    {Dataset(n) : n \in UploadSizes}
        \cup {<<Row("1", "1"), Row("1", "2")>>, <<Row("1", "1"), Row("", "2")>>}
        \cup {<<Row("1", "1"), Row("2", "")>>, <<>>}
        \cup {<<[sku |-> "1", name |-> "1", MetaTitle |-> "old title"],
                [sku |-> "2", name |-> "2", MetaTitle |-> "old title"]>>}

\* Sheets that reader.onload parses and does not accept: no 'sku' column, no
\* 'name' column, a first row with an empty sku, a first row with an empty
\* name; the rows after the first are well formed.
InvalidSheets ==
    {<<[name |-> "1"], [name |-> "2"]>>,
     <<[sku |-> "1"], [sku |-> "2"]>>,
     <<Row("", "1"), Row("2", "2")>>,
     <<Row("1", ""), Row("2", "2")>>}

Sheets == Uploads \cup InvalidSheets

FileNames == {"products.csv"}

\* The texts the service generates, the texts the user types.
EditTexts == {"typed"}
InstructionTexts == {DEFAULT_AI_INSTRUCTIONS, "custom instructions"}

MetaFields == {"MetaTitle", "MetaDescription"}

Max(S) == CHOOSE x \in S : \A y \in S : y <= x

----------------------------------------------------------------------------
(* Array and object helpers *)

SeqMap(Op(_), s) == [i \in 1..Len(s) |-> Op(s[i])]

\* { ...row, [field]: value }
SetField(row, field, value) ==
    [f \in (DOMAIN row) \cup {field} |-> IF f = field THEN value ELSE row[f]]

\* A spread that also writes the title over the name column
WithMetaOverName(product, t, d) ==
    SetField(SetField(SetField(product, "MetaTitle", t), "MetaDescription", d),
             "name", t)

\* A spread that puts the title in the description and the description in the
\* title
WithMetaSwapped(product, t, d) ==
    SetField(SetField(product, "MetaTitle", d), "MetaDescription", t)

\* { ...product, 'Meta Title': t, 'Meta Description': d }
WithMeta(product, t, d) ==
    SetField(SetField(product, "MetaTitle", t), "MetaDescription", d)

\* A destructuring that strips nothing
StripGeneratedNothing(p) == p

\* const { 'Meta Title': _, 'Meta Description': _, ...rest } = p
StripGenerated(p) == [f \in (DOMAIN p) \ MetaFields |-> p[f]]

\* new Map(items.map(m => [m.sku, m])).get(sku): the last item with that sku
MapGet(items, sku) ==
    LET at == {i \in 1..Len(items) : items[i].sku = sku}
    IN  IF at = {} THEN Null ELSE items[Max(at)]

\* a || b on strings
OrElse(a, b) == IF a \in Falsy THEN b ELSE a

\* A chunking that leaves out the records after the last full chunk
ChunksOfFullSizeOnly(products) ==
    [c \in 1..(Len(products) \div BATCH_SIZE) |->
        SubSeq(products, (c - 1) * BATCH_SIZE + 1, c * BATCH_SIZE)]

\* productsToProcess.slice(i, i + BATCH_SIZE) for i = 0, BATCH_SIZE, ...
Chunks(products) ==
    LET n == Len(products)
        count == (n + BATCH_SIZE - 1) \div BATCH_SIZE
        lastOf(c) == IF c * BATCH_SIZE < n THEN c * BATCH_SIZE ELSE n
    IN  [c \in 1..count |-> SubSeq(products, (c - 1) * BATCH_SIZE + 1, lastOf(c))]

----------------------------------------------------------------------------
(* Session store *)

\* JSON.stringify drops the properties whose value is undefined.
JSONObject(row) == [f \in {g \in DOMAIN row : row[g] # Undefined} |-> row[f]]

\* JSON.parse(JSON.stringify(sessionToSave))
SessionJSON(f, orig, proc, partial) ==
    [fileName |-> f.name,
     originalData |-> SeqMap(JSONObject, orig),
     processedData |-> SeqMap(JSONObject, proc),
     isResumable |-> partial]

\* saveCurrentStateToSession(isPartial), called in the render `r`; ls is the
\* stored item before the call, the result is the stored item after it.
SaveCurrentStateToSession(r, isPartial, ls) ==
    IF r.file # Null /\ Len(r.originalData) > 0
    THEN SessionJSON(r.file, r.originalData, r.processedData, isPartial)
    ELSE ls

\* An effect that writes nothing
SyncEffectSkipped(changed, r, ls) == ls

\* The effect "Syncs edits to localStorage", run by the commit when processedData
\* or isResumable changed (`changed`); r is the committed render.
SyncEffect(changed, r, ls) ==
    IF changed /\ r.file # Null /\ Len(r.processedData) > 0 /\ ls # Null
    THEN SaveCurrentStateToSession(r, r.isResumable, ls)
    ELSE ls

Render(f, orig, proc, res) ==
    [file |-> f, originalData |-> orig, processedData |-> proc, isResumable |-> res]

----------------------------------------------------------------------------
(* The generation service (environment) and its client *)

\* The replies of the service to a batch request: the shape of the JSON text
\* (an array with an item for every record sent; or an array whose first item
\* lacks the title and has an empty description, with the last record omitted
\* and an item for a key that was not sent; or a JSON object), the generated
\* text, and the token count of usageMetadata.
Replies ==
    { [shape |-> "full", text |-> "gen A", totalTokens |-> 7],
      [shape |-> "partial", text |-> "gen B", totalTokens |-> 5],
      [shape |-> "object", text |-> "gen C", totalTokens |-> 3] }

\* The answers the service gives the i-th request of a run: the first may be
\* answered in any shape, the later ones are answered in full.
RepliesTo(i) == IF i = 1 THEN Replies ELSE {reply \in Replies : reply.shape = "full"}

\* the key of the item the service adds on its own
ForeignSku == "zz"

\* The JSON array the service answers for a request holding `sent`.
ServiceItems(sent, shape, text) ==
    LET item(p) == [sku |-> p.sku, metaTitle |-> text, metaDescription |-> text]
        all == SeqMap(item, sent)
    IN  CASE shape = "full" -> all
          [] shape = "partial" ->
                [i \in 1..(Len(all) - 1) |->
                    IF i = 1
                    THEN [all[i] EXCEPT !.metaTitle = Undefined, !.metaDescription = ""]
                    ELSE all[i]]
                    \o <<[sku |-> ForeignSku, metaTitle |-> text, metaDescription |-> text]>>

\* What a failing request raises: the status of a structured error (or "none")
\* and the wording of its message.
ErrorSignals ==
    { [status |-> "RESOURCE_EXHAUSTED", wording |-> "plain"],
      [status |-> "none", wording |-> "quota"],
      [status |-> "INTERNAL", wording |-> "plain"] }

\* productDetailsForPrompt: what generateMetaContentForBatch puts in the request
BatchRequest(products) == SeqMap(StripGenerated, products)

\* A client that hands on the items of the service as they came
FinalResultsAsReturned(products, parsedJson) == parsedJson

\* finalResults of generateMetaContentForBatch
FinalResults(products, parsedJson) ==
    LET one(originalProduct) ==
            LET result == MapGet(parsedJson, originalProduct.sku)
            IN  IF result # Null
                THEN [sku |-> result.sku, metaTitle |-> result.metaTitle,
                      metaDescription |-> result.metaDescription]
                ELSE [sku |-> originalProduct.sku, metaTitle |-> NoAIResponseTitle,
                      metaDescription |-> NoAIResponseDescription]
    IN  SeqMap(one, products)

\* A classification that looks at the status of a structured error only
IsQuotaErrorByStatusOnly(signal) == signal.status = "RESOURCE_EXHAUSTED"

\* The catch block of the client: the Error it throws for what was raised.
IsQuotaError(signal) ==
    \/ signal.status = "RESOURCE_EXHAUSTED"
    \/ signal.wording \in {"RESOURCE_EXHAUSTED", "quota"}

ClientError(signal) ==
    IF IsQuotaError(signal)
    THEN [tag |-> "[QUOTA_EXCEEDED]", detail |-> signal.wording]
    ELSE [tag |-> "Failed to generate meta content", detail |-> signal.wording]

\* new Error("API response was not a JSON array as expected."), thrown in the
\* try block and caught by the same catch
NotArrayError == [status |-> "none", wording |-> "not a JSON array"]

\* generateMetaContentForBatch(products, _) given the reply of the service:
\* what it returns, or what its try block raises.
GenerateMetaContentForBatch(products, reply) ==
    IF reply.shape = "object"
    THEN [raised |-> TRUE, signal |-> NotArrayError]
    ELSE LET parsedJson == ServiceItems(BatchRequest(products), reply.shape, reply.text)
         IN  [raised |-> FALSE,
              parsedJson |-> parsedJson,
              results |-> FinalResults(products, parsedJson),
              totalTokens |-> reply.totalTokens]

\* A catch block that takes no error for a quota error
IncludesQuotaTagNever(thrown) == FALSE

\* A catch block that takes every error for a quota error
IncludesQuotaTagAlways(thrown) == TRUE

\* errorMessage.includes("[QUOTA_EXCEEDED]"); the wordings of the service are
\* taken not to contain the client's own tag.
IncludesQuotaTag(thrown) == thrown.tag = "[QUOTA_EXCEEDED]"

----------------------------------------------------------------------------
(* Initial state: the page as first loaded in a browser with an empty store *)

InitialRender == Render(Null, <<>>, <<>>, FALSE)

Init ==
    /\ originalData = <<>>
    /\ processedData = <<>>
    /\ isLoading = FALSE
    /\ error = NoError
    /\ file = Null
    /\ progress = [num |-> 0, den |-> 1]
    /\ progressMessage = NoMessage
    /\ regeneratingSkus = {}
    /\ customInstructions = DEFAULT_AI_INSTRUCTIONS
    /\ savedSession = Null
    /\ isResumable = FALSE
    /\ isCancelledRef = FALSE
    /\ localStorage = Null
    /\ generateClosure = InitialRender
    /\ jobs = {}
    /\ regenCalls = {}
    /\ reader = Null
    /\ calls = <<>>
    /\ outcome = "idle"
    /\ runKind = "none"
    /\ startSnapshot = <<>>
    /\ uploadSnapshot = Null
    /\ budget = MaxUserOps

----------------------------------------------------------------------------
(* What the page renders, which decides the operations the user can invoke *)

\* "Step 2: Configure & Generate"
ConfigurePanelShown ==
    \/ Len(originalData) > 0 /\ Len(processedData) = 0 /\ ~isResumable
    \/ isResumable /\ Len(originalData) > 0

\* A Generate button that stays enabled while a run is loading
GenerateButtonEnabledWhileLoading ==
    ConfigurePanelShown /\ ~isResumable /\ Len(originalData) # 0

GenerateButtonEnabled ==
    ConfigurePanelShown /\ ~isResumable /\ ~(isLoading \/ Len(originalData) = 0)

ResumeButtonEnabled ==
    \/ ConfigurePanelShown /\ isResumable /\ ~isLoading
    \/ Len(processedData) > 0 /\ isResumable /\ ~isLoading

StopButtonShown == isLoading

FileUploadEnabled == ~isLoading

\* "Step 3: Review & Download", with the editable table
ProcessedTableShown == Len(processedData) > 0

\* "Preview Data", with the table of the uploaded rows
PreviewTableShown ==
    Len(originalData) > 0 /\ Len(processedData) = 0 /\ ~isLoading /\ ~isResumable

\* the data of the ProductTable on screen
TableData ==
    IF ProcessedTableShown THEN processedData
    ELSE IF PreviewTableShown THEN originalData
    ELSE <<>>

SessionBannerShown == savedSession # Null

----------------------------------------------------------------------------
(* Upload, restore, dismiss, reload *)

\* handleFileSelect up to reader.readAsText / readAsArrayBuffer
HandleFileSelect(name) ==
    /\ FileUploadEnabled
    /\ reader = Null
    /\ savedSession' = Null
    /\ localStorage' = Null
    /\ file' = [name |-> name]
    /\ originalData' = <<>>
    /\ processedData' = <<>>
    /\ error' = NoError
    /\ progress' = [num |-> 0, den |-> 1]
    /\ progressMessage' = NoMessage
    /\ isResumable' = FALSE
    /\ reader' = [name |-> name]
    /\ generateClosure' = Render(file', <<>>, <<>>, FALSE)
    /\ outcome' = "idle"
    /\ runKind' = "none"
    /\ regenCalls' = {c \in regenCalls : c.status = "pending"}
    /\ calls' = <<>>
    /\ startSnapshot' = <<>>
    /\ UNCHANGED <<isLoading, regeneratingSkus, customInstructions, isCancelledRef,
                   jobs, budget>>
    /\ uploadSnapshot' = [originalData |-> originalData, processedData |-> processedData,
                          isResumable |-> isResumable, localStorage |-> localStorage]

\* The messages of the validation in reader.onload
MissingColumns == [kind |-> "upload", reason |-> "must contain 'sku' and 'name' columns"]

MissingSkuValue ==
    [kind |-> "upload", reason |-> "the first product is missing a value", column |-> "sku"]

MissingNameValue ==
    [kind |-> "upload", reason |-> "the first product is missing a value", column |-> "name"]

\* A validation that looks for the columns and the values in every row
ValidationOfEveryRow(normalizedData) ==
    IF \E k \in 1..Len(normalizedData) :
           "sku" \notin DOMAIN normalizedData[k] \/ "name" \notin DOMAIN normalizedData[k]
    THEN MissingColumns
    ELSE IF \E k \in 1..Len(normalizedData) : normalizedData[k].sku = ""
    THEN MissingSkuValue
    ELSE IF \E k \in 1..Len(normalizedData) : normalizedData[k].name = ""
    THEN MissingNameValue
    ELSE NoError

\* The validation of normalizedData in reader.onload: the error it sets, or
\* NoError when it goes on to setOriginalData
Validation(normalizedData) ==
    IF Len(normalizedData) > 0
    THEN LET firstRow == normalizedData[1]
         IN  IF "sku" \notin DOMAIN firstRow \/ "name" \notin DOMAIN firstRow
             THEN MissingColumns
             ELSE IF firstRow.sku = "" THEN MissingSkuValue
             ELSE IF firstRow.name = "" THEN MissingNameValue
             ELSE NoError
    ELSE NoError

\* reader.onload, the file parsed and validated: setOriginalData(normalizedData)
ReaderOnLoadAccepts(normalizedData) ==
    /\ reader # Null
    /\ Validation(normalizedData) = NoError
    /\ reader' = Null
    /\ originalData' = normalizedData
    /\ generateClosure' = Render(file, originalData', processedData, isResumable)
    /\ UNCHANGED <<processedData, isLoading, error, file, progress, progressMessage,
                   regeneratingSkus, customInstructions, savedSession, isResumable,
                   isCancelledRef, localStorage, jobs, regenCalls, calls, outcome,
                   runKind, startSnapshot, budget>>
    /\ uploadSnapshot' = Null

\* reader.onload, the file parsed and the validation failed: setError(...)
ReaderOnLoadInvalid(normalizedData) ==
    /\ reader # Null
    /\ Validation(normalizedData) # NoError
    /\ reader' = Null
    /\ error' = Validation(normalizedData)
    /\ uploadSnapshot' = Null
    /\ UNCHANGED <<originalData, processedData, isLoading, file, progress,
                   progressMessage, regeneratingSkus, customInstructions, savedSession,
                   isResumable, isCancelledRef, localStorage, generateClosure, jobs,
                   regenCalls, calls, outcome, runKind, startSnapshot, budget>>

\* reader.onload that could not read or parse the file, and reader.onerror:
\* setError(...) and nothing else
ReaderOnLoadRejects(reason) ==
    /\ reader # Null
    /\ reader' = Null
    /\ error' = [kind |-> "upload", reason |-> reason]
    /\ UNCHANGED <<originalData, processedData, isLoading, file, progress,
                   progressMessage, regeneratingSkus, customInstructions, savedSession,
                   isResumable, isCancelledRef, localStorage, generateClosure, jobs,
                   regenCalls, calls, outcome, runKind, startSnapshot, budget>>
    /\ uploadSnapshot' = Null

UploadRejections == {"parse", "read"}

QuotaMessage(processedCount, total) ==
    [kind |-> "quota", processed |-> processedCount, total |-> total]

HandleRestoreSession ==
    /\ SessionBannerShown
    /\ file' = [name |-> savedSession.fileName]
    /\ originalData' = savedSession.originalData
    /\ processedData' = savedSession.processedData
    /\ IF savedSession.isResumable
       THEN /\ isResumable' = TRUE
            /\ error' = QuotaMessage(Len(savedSession.processedData),
                                     Len(savedSession.originalData))
       ELSE UNCHANGED <<isResumable, error>>
    /\ savedSession' = Null
    \* handleDismissSession removes the item, so the sync effect finds none
    /\ localStorage' = SyncEffect(TRUE,
                          Render(file', originalData', processedData', isResumable'), Null)
    /\ generateClosure' = Render(file', originalData', processedData', isResumable')
    /\ outcome' = "idle"
    /\ runKind' = "none"
    /\ UNCHANGED <<isLoading, progress, progressMessage, regeneratingSkus,
                   customInstructions, isCancelledRef, jobs, regenCalls, reader, calls,
                   startSnapshot, budget>>
    /\ UNCHANGED uploadSnapshot

HandleDismissSession ==
    /\ SessionBannerShown
    /\ savedSession' = Null
    /\ localStorage' = Null
    /\ UNCHANGED <<originalData, processedData, isLoading, error, file, progress,
                   progressMessage, regeneratingSkus, customInstructions, isResumable,
                   isCancelledRef, generateClosure, jobs, regenCalls, reader, calls,
                   outcome, runKind, startSnapshot, budget>>
    /\ UNCHANGED uploadSnapshot

\* The "Session Initialization" of the mount effect
SessionInitialization(item) ==
    IF item # Null /\ item.fileName # "" THEN item ELSE Null

\* The page is loaded again: the component state is rebuilt, the store survives,
\* the pending requests of the old page are gone.
Reload ==
    /\ budget > 0
    /\ budget' = budget - 1
    /\ originalData' = <<>>
    /\ processedData' = <<>>
    /\ isLoading' = FALSE
    /\ error' = NoError
    /\ file' = Null
    /\ progress' = [num |-> 0, den |-> 1]
    /\ progressMessage' = NoMessage
    /\ regeneratingSkus' = {}
    /\ customInstructions' = DEFAULT_AI_INSTRUCTIONS
    /\ savedSession' = SessionInitialization(localStorage)
    /\ isResumable' = FALSE
    /\ isCancelledRef' = FALSE
    /\ generateClosure' = InitialRender
    /\ jobs' = {}
    /\ regenCalls' = {}
    /\ reader' = Null
    /\ calls' = <<>>
    /\ outcome' = "idle"
    /\ runKind' = "none"
    /\ startSnapshot' = <<>>
    /\ UNCHANGED localStorage
    /\ uploadSnapshot' = Null

\* AdvancedSettings: setInstructions(text)
SetCustomInstructions(text) ==
    /\ ConfigurePanelShown
    /\ budget > 0
    /\ text # customInstructions
    /\ budget' = budget - 1
    /\ customInstructions' = text
    /\ generateClosure' = Render(file, originalData, processedData, isResumable)
    /\ UNCHANGED <<originalData, processedData, isLoading, error, file, progress,
                   progressMessage, regeneratingSkus, savedSession, isResumable,
                   isCancelledRef, localStorage, jobs, regenCalls, reader, calls,
                   outcome, runKind, startSnapshot>>
    /\ UNCHANGED uploadSnapshot

----------------------------------------------------------------------------
(* runGenerationProcess *)

PendingCall(chunk) ==
    [request |-> BatchRequest(chunk), status |-> "pending", tokens |-> 0,
     received |-> <<>>, results |-> <<>>, signal |-> Null]

\* A loop that does not look at the cancellation flag
LoopHeadIgnoringCancel(i, chunkCount, cancelled) ==
    IF i > chunkCount THEN "complete" ELSE "dispatch"

\* A loop that looks at the cancellation flag before it looks at its bound
LoopHeadCancelFirst(i, chunkCount, cancelled) ==
    IF cancelled THEN "stopped"
    ELSE IF i > chunkCount THEN "complete"
    ELSE "dispatch"

\* The head of the for loop, about to look at chunk i (from 1): the loop ends,
\* breaks on the cancellation flag, or awaits the call for chunk i.
LoopHead(i, chunkCount, cancelled) ==
    IF i > chunkCount THEN "complete"
    ELSE IF cancelled THEN "stopped"
    ELSE "dispatch"

\* From the loop head to the next await or to the end of the activation.
\* job.i is the chunk the loop is about to look at; proc and ls are
\* processedData and the stored item as the task has left them so far,
\* changed tells whether the task has set processedData, resumable is
\* isResumable as the task has left it so far.
\* Defines jobs' (less `old`), calls', isLoading', isResumable',
\* progressMessage', localStorage', outcome'.
RunLoop(old, job, cancelled, proc, ls, changed, resumable, message, log) ==
    LET head == LoopHead(job.i, Len(job.chunks), cancelled)
        r == job.closure
    IN  /\ jobs' = IF head = "dispatch" THEN (jobs \ old) \cup {job} ELSE jobs \ old
        /\ calls' = IF head = "dispatch" THEN Append(log, PendingCall(job.chunks[job.i]))
                    ELSE log
        /\ isLoading' = (head = "dispatch")
        /\ isResumable' = IF head = "stopped" THEN TRUE ELSE resumable
        /\ progressMessage' =
              CASE head = "dispatch" -> message
                [] head = "stopped" -> [kind |-> "stopped"]
                [] head = "complete" ->
                      [kind |-> "complete", total |-> Len(r.originalData),
                       tokens |-> job.totalTokensThisRun]
        /\ outcome' =
              CASE head = "dispatch" -> "running"
                [] head = "stopped" -> "stopped"
                [] head = "complete" -> "completed"
        /\ localStorage' =
              LET saved == CASE head = "dispatch" -> ls
                             [] head = "stopped" -> SaveCurrentStateToSession(r, TRUE, ls)
                             [] head = "complete" -> SaveCurrentStateToSession(r, FALSE, ls)
              IN  SyncEffect(changed \/ isResumable' # isResumable,
                             Render(file, originalData, proc, isResumable'), saved)

\* A run that, given no records, returns without clearing isResumable
RunGenerationProcessKeepingFlag(kind, r, productsToProcess, cancelled, proc, changed) ==
    /\ error' = NoError
    /\ runKind' = kind
    /\ startSnapshot' = proc
    /\ IF Len(productsToProcess) = 0
       THEN /\ isLoading' = FALSE
            /\ isResumable' = isResumable
            /\ progressMessage' = [kind |-> "allDone"]
            /\ outcome' = "completed"
            /\ calls' = <<>>
            /\ localStorage' = SyncEffect(changed,
                                  Render(file, originalData, proc, isResumable), localStorage)
            /\ UNCHANGED jobs
       ELSE LET job == [chunks |-> Chunks(productsToProcess),
                        i |-> 1,
                        currentRunResults |-> <<>>,
                        initialProcessedCount |-> Len(r.processedData),
                        totalTokensThisRun |-> 0,
                        closure |-> r]
            IN  RunLoop({}, job, cancelled, proc, localStorage, changed, FALSE,
                        [kind |-> "processing",
                         done |-> job.initialProcessedCount,
                         total |-> Len(r.originalData)],
                        <<>>)

\* runGenerationProcess(productsToProcess) called in the render r, up to its
\* first await or its return. proc is processedData as the calling handler
\* has set it, changed whether the handler has set it, cancelled the flag as the
\* handler has set it.
RunGenerationProcess(kind, r, productsToProcess, cancelled, proc, changed) ==
    /\ error' = NoError
    /\ runKind' = kind
    /\ startSnapshot' = proc
    /\ IF Len(productsToProcess) = 0
       THEN /\ isLoading' = FALSE
            /\ isResumable' = FALSE
            /\ progressMessage' = [kind |-> "allDone"]
            /\ outcome' = "completed"
            /\ calls' = <<>>
            /\ localStorage' = SyncEffect(changed \/ isResumable,
                                  Render(file, originalData, proc, FALSE), localStorage)
            /\ UNCHANGED jobs
       ELSE LET job == [chunks |-> Chunks(productsToProcess),
                        i |-> 1,
                        currentRunResults |-> <<>>,
                        initialProcessedCount |-> Len(r.processedData),
                        totalTokensThisRun |-> 0,
                        closure |-> r]
            IN  RunLoop({}, job, cancelled, proc, localStorage, changed, FALSE,
                        [kind |-> "processing",
                         done |-> job.initialProcessedCount,
                         total |-> Len(r.originalData)],
                        <<>>)

HandleGenerate ==
    /\ GenerateButtonEnabled
    /\ Len(generateClosure.originalData) # 0
    /\ isCancelledRef' = FALSE
    /\ processedData' = <<>>
    /\ progress' = [num |-> 0, den |-> 1]
    /\ RunGenerationProcess("fresh", generateClosure, generateClosure.originalData,
                            FALSE, <<>>, TRUE)
    /\ UNCHANGED <<originalData, file, regeneratingSkus, customInstructions,
                   savedSession, generateClosure, regenCalls, reader, budget>>
    /\ UNCHANGED uploadSnapshot

\* A resume that sends every original record again
RemainingProductsAll(orig, proc) == orig

\* originalData.filter(p => !processedSkus.has(p.sku))
RemainingProducts(orig, proc) ==
    LET processedSkus == {proc[i].sku : i \in 1..Len(proc)}
    IN  SelectSeq(orig, LAMBDA p : p.sku \notin processedSkus)

\* A resume that leaves the cancellation flag as it finds it
HandleResumeKeepingFlag ==
    /\ ResumeButtonEnabled
    /\ isCancelledRef' = isCancelledRef
    /\ RunGenerationProcess("resume",
                            Render(file, originalData, processedData, isResumable),
                            RemainingProducts(originalData, processedData),
                            isCancelledRef, processedData, FALSE)
    /\ UNCHANGED <<originalData, processedData, file, progress, regeneratingSkus,
                   customInstructions, savedSession, generateClosure, regenCalls,
                   reader, budget>>
    /\ UNCHANGED uploadSnapshot

\* handleResume is memoized on originalData, processedData and the instructions,
\* so the render it captured is the one on screen.
HandleResume ==
    /\ ResumeButtonEnabled
    /\ isCancelledRef' = FALSE
    /\ RunGenerationProcess("resume",
                            Render(file, originalData, processedData, isResumable),
                            RemainingProducts(originalData, processedData), FALSE,
                            processedData, FALSE)
    /\ UNCHANGED <<originalData, processedData, file, progress, regeneratingSkus,
                   customInstructions, savedSession, generateClosure, regenCalls,
                   reader, budget>>
    /\ UNCHANGED uploadSnapshot

\* A stop that aborts the call in flight and ends the run at once
HandleStopAborting ==
    /\ StopButtonShown
    /\ isCancelledRef' = TRUE
    /\ jobs' = {}
    /\ calls' = SelectSeq(calls, LAMBDA c : c.status # "pending")
    /\ isLoading' = FALSE
    /\ isResumable' = TRUE
    /\ outcome' = "stopped"
    /\ UNCHANGED <<originalData, processedData, error, file, progress,
                   progressMessage, regeneratingSkus, customInstructions, savedSession,
                   localStorage, generateClosure, regenCalls, reader, runKind,
                   startSnapshot, budget>>
    /\ UNCHANGED uploadSnapshot

HandleStop ==
    /\ StopButtonShown
    /\ isCancelledRef' = TRUE
    /\ UNCHANGED <<originalData, processedData, isLoading, error, file, progress,
                   progressMessage, regeneratingSkus, customInstructions, savedSession,
                   isResumable, localStorage, generateClosure, jobs, regenCalls, reader,
                   calls, outcome, runKind, startSnapshot, budget>>
    /\ UNCHANGED uploadSnapshot

\* processedChunk
ProcessedChunk(chunk, generatedMetas) ==
    LET one(product) ==
            LET meta == MapGet(generatedMetas, product.sku)
            IN  WithMeta(product,
                    IF meta = Null THEN NotGenerated ELSE OrElse(meta.metaTitle, NotGenerated),
                    IF meta = Null THEN NotGenerated
                    ELSE OrElse(meta.metaDescription, NotGenerated))
    IN  SeqMap(one, chunk)

\* A merge that is lost: the next chunk is requested with the data unmerged
MergeResultsLost(prevData, currentRunResults, orig) == prevData

\* A merge that appends the run's results to the previous data instead of
\* re-deriving the view from originalData
MergeResultsAppending(prevData, currentRunResults, orig) ==
    prevData \o currentRunResults

\* A merge that lists the results of the run before the records it found
MergeResultsNewestFirst(prevData, currentRunResults, orig) ==
    currentRunResults \o
        SelectSeq(prevData,
                  LAMBDA p : \A k \in 1..Len(currentRunResults) :
                                 currentRunResults[k].sku # p.sku)

\* A merge that keeps the results of the run and nothing else
MergeResultsOfRunOnly(prevData, currentRunResults, orig) == currentRunResults

\* The updater given to setProcessedData after a chunk
MergeResults(prevData, currentRunResults, orig) ==
    LET newDataMap == prevData \o currentRunResults
        looked == SeqMap(LAMBDA og : MapGet(newDataMap, og.sku), orig)
    IN  SelectSeq(looked, LAMBDA p : p # Null)

\* A count that forgets the records of the run
ProcessedCountBeforeRunOnly(initialProcessedCount, currentRunResults) ==
    initialProcessedCount

\* A count that forgets the records processed before the run
ProcessedCountOfRunOnly(initialProcessedCount, currentRunResults) ==
    Len(currentRunResults)

\* initialProcessedCount + currentRunResults.length
ProcessedCount(initialProcessedCount, currentRunResults) ==
    initialProcessedCount + Len(currentRunResults)

\* An accumulator that keeps the token count of the last call only
AddTokensOverwriting(totalTokensThisRun, totalTokens) == totalTokens

\* totalTokensThisRun += totalTokens
AddTokens(totalTokensThisRun, totalTokens) == totalTokensThisRun + totalTokens

\* The calls history with the pending request settled
Settled(log, status, tokens) ==
    [k \in 1..Len(log) |->
        IF log[k].status = "pending"
        THEN [log[k] EXCEPT !.status = status, !.tokens = tokens]
        ELSE log[k]]

\* The calls history with what the last call received and returned, or with
\* what its try block raised
Returned(log, parsedJson, results) ==
    [log EXCEPT ![Len(log)].received = parsedJson, ![Len(log)].results = results]

Raised(log, signal) == [log EXCEPT ![Len(log)].signal = signal]

\* The awaited generateMetaContentForBatch resolves: the rest of the loop body,
\* then the loop up to the next await or to the end of the activation.
BatchResolves(job, reply) ==
    /\ job \in jobs
    /\ ~GenerateMetaContentForBatch(job.chunks[job.i], reply).raised
    /\ LET chunk == job.chunks[job.i]
           returned == GenerateMetaContentForBatch(chunk, reply)
           totalTokens == returned.totalTokens
           generatedMetas == returned.results
           results == job.currentRunResults \o ProcessedChunk(chunk, generatedMetas)
           merged == MergeResults(processedData, results, job.closure.originalData)
           overallProcessedCount == ProcessedCount(job.initialProcessedCount, results)
           next == [job EXCEPT !.i = @ + 1,
                               !.currentRunResults = results,
                               !.totalTokensThisRun = AddTokens(@, totalTokens)]
       IN  /\ processedData' = merged
           /\ progress' = [num |-> overallProcessedCount,
                           den |-> Len(job.closure.originalData)]
           /\ RunLoop({job}, next, isCancelledRef, merged, localStorage, TRUE,
                      isResumable,
                      [kind |-> "processing", done |-> overallProcessedCount,
                       total |-> Len(job.closure.originalData)],
                      Returned(Settled(calls, "ok", totalTokens),
                               returned.parsedJson, returned.results))
    /\ UNCHANGED <<originalData, error, file, regeneratingSkus, customInstructions,
                   savedSession, isCancelledRef, generateClosure, regenCalls, reader,
                   runKind, startSnapshot, budget>>
    /\ UNCHANGED uploadSnapshot

\* A rejection whose finally block does not run: the loading flag stays set
BatchRejectsWithoutFinally(job, signal) ==
    /\ job \in jobs
    /\ LET thrown == ClientError(signal)
           quota == IncludesQuotaTag(thrown)
           processedCount == ProcessedCount(job.initialProcessedCount,
                                            job.currentRunResults)
       IN  /\ error' = IF quota
                       THEN QuotaMessage(processedCount, Len(job.closure.originalData))
                       ELSE [kind |-> "detail", thrown |-> thrown]
           /\ isResumable' = IF quota THEN TRUE ELSE isResumable
           /\ localStorage' =
                 SyncEffect(isResumable' # isResumable,
                            Render(file, originalData, processedData, isResumable'),
                            IF quota
                            THEN SaveCurrentStateToSession(job.closure, TRUE, localStorage)
                            ELSE localStorage)
           /\ outcome' = IF quota THEN "quota_exceeded" ELSE "failed"
           /\ calls' = Raised(Settled(calls, thrown.tag, 0), signal)
    /\ progressMessage' = NoMessage
    /\ isLoading' = isLoading
    /\ jobs' = jobs \ {job}
    /\ UNCHANGED <<originalData, processedData, file, progress, regeneratingSkus,
                   customInstructions, savedSession, isCancelledRef, generateClosure,
                   regenCalls, reader, runKind, startSnapshot, budget>>
    /\ UNCHANGED uploadSnapshot

\* The awaited generateMetaContentForBatch rejects: the catch and finally blocks.
BatchRejects(job, signal) ==
    /\ job \in jobs
    /\ LET thrown == ClientError(signal)
           quota == IncludesQuotaTag(thrown)
           processedCount == ProcessedCount(job.initialProcessedCount,
                                            job.currentRunResults)
       IN  /\ error' = IF quota
                       THEN QuotaMessage(processedCount, Len(job.closure.originalData))
                       ELSE [kind |-> "detail", thrown |-> thrown]
           /\ isResumable' = IF quota THEN TRUE ELSE isResumable
           /\ localStorage' =
                 SyncEffect(isResumable' # isResumable,
                            Render(file, originalData, processedData, isResumable'),
                            IF quota
                            THEN SaveCurrentStateToSession(job.closure, TRUE, localStorage)
                            ELSE localStorage)
           /\ outcome' = IF quota THEN "quota_exceeded" ELSE "failed"
           /\ calls' = Raised(Settled(calls, thrown.tag, 0), signal)
    /\ progressMessage' = NoMessage
    /\ isLoading' = FALSE
    /\ jobs' = jobs \ {job}
    /\ UNCHANGED <<originalData, processedData, file, progress, regeneratingSkus,
                   customInstructions, savedSession, isCancelledRef, generateClosure,
                   regenCalls, reader, runKind, startSnapshot, budget>>
    /\ UNCHANGED uploadSnapshot

\* The service answers with JSON that is not an array: the client raises in its
\* try block, and the awaited call rejects.
BatchResponseRejected(job, reply) ==
    /\ job \in jobs
    /\ GenerateMetaContentForBatch(job.chunks[job.i], reply).raised
    /\ BatchRejects(job, GenerateMetaContentForBatch(job.chunks[job.i], reply).signal)

----------------------------------------------------------------------------
(* Row operations of the processed table *)

\* ProductTable: 'Meta Title' in data[0], so the cells are editable and the
\* Actions column is there
IsProcessed(data) == Len(data) > 0 /\ "MetaTitle" \in DOMAIN data[1]

\* product[header] || ''
CellValue(row, header) == IF header \in DOMAIN row THEN OrElse(row[header], "") ELSE ""

\* The row the user works on: the first of the table.
RowTargets(data) == IF Len(data) = 0 THEN {} ELSE {1}

RegenTexts == {"regen"}

\* What JSON.parse gives generateMetaContentForSingleProduct: the object the
\* schema asks for, or one that lacks the description
RegenResults(sku) ==
    {[sku |-> sku, metaTitle |-> text, metaDescription |-> description] :
        text \in RegenTexts, description \in RegenTexts \cup {Undefined}}

\* An updater that writes the value, or clears the field when it holds the
\* value already
CellChangeToggling(currentData, sku, field, value) ==
    SeqMap(LAMBDA row : IF row.sku = sku
                        THEN SetField(row, field,
                                      IF CellValue(row, field) = value THEN "" ELSE value)
                        ELSE row,
           currentData)

\* The updater handleCellChange gives to setProcessedData
CellChange(currentData, sku, field, value) ==
    SeqMap(LAMBDA row : IF row.sku = sku THEN SetField(row, field, value) ELSE row,
           currentData)

\* An edit that writes the value in the field of every row
HandleCellChangeEveryRow(sku, field, value) ==
    /\ IsProcessed(TableData)
    /\ field \in DOMAIN TableData[1]
    /\ budget > 0
    /\ \E k \in 1..Len(TableData) :
          TableData[k].sku = sku /\ CellValue(TableData[k], field) # value
    /\ budget' = budget - 1
    /\ processedData' =
          SeqMap(LAMBDA row : SetField(row, field, value),
                 processedData)
    /\ localStorage' = SyncEffect(TRUE,
                          Render(file, originalData, processedData', isResumable),
                          localStorage)
    /\ UNCHANGED <<originalData, isLoading, error, file, progress, progressMessage,
                   regeneratingSkus, customInstructions, savedSession, isResumable,
                   isCancelledRef, generateClosure, jobs, regenCalls, reader, calls,
                   outcome, runKind, startSnapshot>>
    /\ UNCHANGED uploadSnapshot

\* EditableCell.handleSave -> onCellChange -> handleCellChange(sku, field, value)
HandleCellChange(sku, field, value) ==
    /\ IsProcessed(TableData)
    /\ field \in DOMAIN TableData[1]
    /\ budget > 0
    /\ \E k \in 1..Len(TableData) :
          TableData[k].sku = sku /\ CellValue(TableData[k], field) # value
    /\ budget' = budget - 1
    /\ processedData' = CellChange(processedData, sku, field, value)
    /\ localStorage' = SyncEffect(TRUE,
                          Render(file, originalData, processedData', isResumable),
                          localStorage)
    /\ UNCHANGED <<originalData, isLoading, error, file, progress, progressMessage,
                   regeneratingSkus, customInstructions, savedSession, isResumable,
                   isCancelledRef, generateClosure, jobs, regenCalls, reader, calls,
                   outcome, runKind, startSnapshot>>
    /\ UNCHANGED uploadSnapshot

\* handleRegenerateRow(productToRegenerate) up to its await
HandleRegenerateRow(productToRegenerate) ==
    /\ IsProcessed(TableData)
    /\ \E k \in 1..Len(TableData) : TableData[k] = productToRegenerate
    /\ productToRegenerate.sku \notin regeneratingSkus
    /\ budget > 0
    /\ budget' = budget - 1
    /\ regeneratingSkus' = regeneratingSkus \cup {productToRegenerate.sku}
    /\ error' = NoError
    /\ regenCalls' = {c \in regenCalls : c.sku # productToRegenerate.sku} \cup
          {[sku |-> productToRegenerate.sku,
            request |-> StripGenerated(productToRegenerate),
            status |-> "pending", signal |-> Null]}
    /\ UNCHANGED <<originalData, processedData, isLoading, file, progress,
                   progressMessage, customInstructions, savedSession, isResumable,
                   isCancelledRef, localStorage, generateClosure, jobs, reader, calls,
                   outcome, runKind, startSnapshot>>
    /\ UNCHANGED uploadSnapshot

\* The awaited generateMetaContentForSingleProduct resolves
RegenerateResolves(call, result) ==
    /\ call \in regenCalls
    /\ call.status = "pending"
    /\ processedData' =
          SeqMap(LAMBDA row : IF row.sku = call.sku
                              THEN WithMeta(row, result.metaTitle, result.metaDescription)
                              ELSE row,
                 processedData)
    /\ regeneratingSkus' = regeneratingSkus \ {call.sku}
    /\ regenCalls' = (regenCalls \ {call}) \cup {[call EXCEPT !.status = "ok"]}
    /\ localStorage' = SyncEffect(TRUE,
                          Render(file, originalData, processedData', isResumable),
                          localStorage)
    /\ UNCHANGED <<originalData, isLoading, error, file, progress, progressMessage,
                   customInstructions, savedSession, isResumable, isCancelledRef,
                   generateClosure, jobs, reader, calls, outcome, runKind, startSnapshot, budget>>
    /\ UNCHANGED uploadSnapshot

\* A rejection after which the sku stays in regeneratingSkus
RegenerateRejectsKeepingSpinner(call, signal) ==
    /\ call \in regenCalls
    /\ call.status = "pending"
    /\ LET quota == IncludesQuotaTag(ClientError(signal))
       IN  /\ error' = IF quota THEN [kind |-> "regenerate quota", sku |-> call.sku]
                       ELSE error
           /\ processedData' =
                 IF quota THEN processedData
                 ELSE SeqMap(LAMBDA row : IF row.sku = call.sku
                                          THEN WithMeta(row, RegenerationFailedTitle,
                                                        RegenerationFailedDescription)
                                          ELSE row,
                             processedData)
           /\ localStorage' = SyncEffect(~quota,
                                 Render(file, originalData, processedData', isResumable),
                                 localStorage)
    /\ regeneratingSkus' = regeneratingSkus
    /\ regenCalls' = (regenCalls \ {call}) \cup
          {[call EXCEPT !.status = ClientError(signal).tag, !.signal = signal]}
    /\ UNCHANGED <<originalData, isLoading, file, progress, progressMessage,
                   customInstructions, savedSession, isResumable, isCancelledRef,
                   generateClosure, jobs, reader, calls, outcome, runKind, startSnapshot, budget>>
    /\ UNCHANGED uploadSnapshot

\* A rejection that marks the run resumable, as the catch of the bulk run does
RegenerateRejectsMarkingResumable(call, signal) ==
    /\ call \in regenCalls
    /\ call.status = "pending"
    /\ LET quota == IncludesQuotaTag(ClientError(signal))
       IN  /\ error' = IF quota THEN [kind |-> "regenerate quota", sku |-> call.sku]
                       ELSE error
           /\ processedData' =
                 IF quota THEN processedData
                 ELSE SeqMap(LAMBDA row : IF row.sku = call.sku
                                          THEN WithMeta(row, RegenerationFailedTitle,
                                                        RegenerationFailedDescription)
                                          ELSE row,
                             processedData)
           /\ localStorage' = SyncEffect(~quota,
                                 Render(file, originalData, processedData', isResumable'),
                                 localStorage)
    /\ regeneratingSkus' = regeneratingSkus \ {call.sku}
    /\ isResumable' = TRUE
    /\ regenCalls' = (regenCalls \ {call}) \cup
          {[call EXCEPT !.status = ClientError(signal).tag, !.signal = signal]}
    /\ UNCHANGED <<originalData, isLoading, file, progress, progressMessage,
                   customInstructions, savedSession, isCancelledRef,
                   generateClosure, jobs, reader, calls, outcome, runKind, startSnapshot, budget>>
    /\ UNCHANGED uploadSnapshot

\* The awaited generateMetaContentForSingleProduct rejects
RegenerateRejects(call, signal) ==
    /\ call \in regenCalls
    /\ call.status = "pending"
    /\ LET quota == IncludesQuotaTag(ClientError(signal))
       IN  /\ error' = IF quota THEN [kind |-> "regenerate quota", sku |-> call.sku]
                       ELSE error
           /\ processedData' =
                 IF quota THEN processedData
                 ELSE SeqMap(LAMBDA row : IF row.sku = call.sku
                                          THEN WithMeta(row, RegenerationFailedTitle,
                                                        RegenerationFailedDescription)
                                          ELSE row,
                             processedData)
           /\ localStorage' = SyncEffect(~quota,
                                 Render(file, originalData, processedData', isResumable),
                                 localStorage)
    /\ regeneratingSkus' = regeneratingSkus \ {call.sku}
    /\ regenCalls' = (regenCalls \ {call}) \cup
          {[call EXCEPT !.status = ClientError(signal).tag, !.signal = signal]}
    /\ UNCHANGED <<originalData, isLoading, file, progress, progressMessage,
                   customInstructions, savedSession, isResumable, isCancelledRef,
                   generateClosure, jobs, reader, calls, outcome, runKind, startSnapshot, budget>>
    /\ UNCHANGED uploadSnapshot

----------------------------------------------------------------------------
(* The specification *)

Next ==
    \/ \E name \in FileNames : HandleFileSelect(name)
    \/ \E normalizedData \in Sheets : ReaderOnLoadAccepts(normalizedData)
    \/ \E normalizedData \in Sheets : ReaderOnLoadInvalid(normalizedData)
    \/ \E reason \in UploadRejections : ReaderOnLoadRejects(reason)
    \/ HandleRestoreSession
    \/ HandleDismissSession
    \/ Reload
    \/ \E text \in InstructionTexts : SetCustomInstructions(text)
    \/ HandleGenerate
    \/ HandleResume
    \/ HandleStop
    \/ \E job \in jobs : \E reply \in RepliesTo(job.i) : BatchResolves(job, reply)
    \/ \E job \in jobs, signal \in ErrorSignals : BatchRejects(job, signal)
    \/ \E job \in jobs : \E reply \in RepliesTo(job.i) : BatchResponseRejected(job, reply)
    \/ \E k \in RowTargets(TableData), field \in MetaFields, value \in EditTexts :
          HandleCellChange(TableData[k].sku, field, value)
    \/ \E k \in RowTargets(TableData) : HandleRegenerateRow(TableData[k])
    \/ \E call \in regenCalls :
          \E result \in RegenResults(call.sku) : RegenerateResolves(call, result)
    \/ \E call \in regenCalls, signal \in ErrorSignals : RegenerateRejects(call, signal)

Spec == Init /\ [][Next]_vars

\* A sheet of BATCH_SIZE + 1 rows whose last row repeats the sku of the first
RepeatedSkuSheet == Dataset(BATCH_SIZE) \o <<Row("1", ToString(BATCH_SIZE + 1))>>

\* The page, with that sheet among those the user uploads
RepeatedSkuNext == Next \/ ReaderOnLoadAccepts(RepeatedSkuSheet)

RepeatedSkuSpec == Init /\ [][RepeatedSkuNext]_vars

\* The promise generateMetaContentForBatch returned settles: the continuation
\* of the await in runGenerationProcess runs
BatchSettles ==
    \E job \in jobs :
        \/ \E signal \in ErrorSignals : BatchRejects(job, signal)
        \/ \E reply \in RepliesTo(job.i) :
              BatchResponseRejected(job, reply) \/ BatchResolves(job, reply)

\* Every generation call that is awaited settles in the end, and the event
\* loop then runs the continuation.
SettlingSpec == Spec /\ WF_vars(BatchSettles)

----------------------------------------------------------------------------
(* Vocabulary of the properties *)

Skus(data) == SeqMap(LAMBDA p : p.sku, data)

SkuSet(data) == {data[k].sku : k \in 1..Len(data)}

UniqueKeys(data) == \A a, b \in 1..Len(data) : data[a].sku = data[b].sku => a = b

Terminal == {"completed", "stopped", "quota_exceeded", "failed"}

RECURSIVE Flatten(_)
Flatten(ss) == IF Len(ss) = 0 THEN <<>> ELSE Head(ss) \o Flatten(Tail(ss))

\* The records of the requests made by the latest run, in the order sent
Sent == Flatten(SeqMap(LAMBDA c : c.request, calls))

\* The records of the requests of the latest run that the service answered
Answered == Flatten(SeqMap(LAMBDA c : c.request, SelectSeq(calls, LAMBDA c : c.status = "ok")))

PendingCalls == {k \in 1..Len(calls) : calls[k].status = "pending"}

IsPrefix(s, t) == Len(s) <= Len(t) /\ SubSeq(t, 1, Len(s)) = s
----------------------------------------------------------------------------
(* C1: once a fresh run over records with unique keys has settled as        *)
(* completed, processedData has the length of originalData and holds every  *)
(* original key exactly once, in the order of originalData.                 *)
C1_CompletedCoversAll ==
    (outcome = "completed" /\ runKind = "fresh" /\ UniqueKeys(originalData))
        => /\ Len(processedData) = Len(originalData)
           /\ Skus(processedData) = Skus(originalData)
           /\ UniqueKeys(processedData)

C1_Witness ==
    /\ outcome = "completed" /\ runKind = "fresh"
    /\ UniqueKeys(originalData)
    /\ Len(originalData) = BATCH_SIZE + 2
    /\ Len(calls) = 2

----------------------------------------------------------------------------
(* C2: a resumed run sends to the service the original records whose key   *)
(* was not in processedData when resume was invoked, as the client sends    *)
(* them, in original order (all of them once the run has completed), and    *)
(* never a record whose key was already in processedData.                   *)
C2_ResumeSendsRemaining ==
    runKind = "resume" =>
        LET had == {startSnapshot[k].sku : k \in 1..Len(startSnapshot)}
            remaining == BatchRequest(SelectSeq(originalData, LAMBDA p : p.sku \notin had))
        IN  /\ IsPrefix(Sent, remaining)
            /\ \A k \in 1..Len(Sent) : Sent[k].sku \notin had
            /\ outcome = "completed" => Sent = remaining

C2_Witness ==
    /\ runKind = "resume" /\ outcome = "completed"
    /\ Len(startSnapshot) = BATCH_SIZE
    /\ Len(originalData) = BATCH_SIZE + 2
    /\ Skus(Sent) = Skus(SubSeq(originalData, BATCH_SIZE + 1, BATCH_SIZE + 2))

----------------------------------------------------------------------------
----------------------------------------------------------------------------
(* C4: if the cancellation flag is set when the call of a chunk returns and *)
(* chunks remain, the run settles as stopped with isResumable set and sends *)
(* no request for the next chunk; as long as the run stays stopped no       *)
(* request is pending and none is added.                                    *)
C4_StopStep ==
    \A job \in jobs :
        (/\ isCancelledRef
         /\ job.i < Len(job.chunks)
         /\ PendingCalls # {}
         /\ Len(calls') >= Len(calls)
         /\ \A k \in PendingCalls : calls'[k].status = "ok")
        => /\ outcome' = "stopped"
           /\ isResumable'
           /\ ~isLoading'
           /\ jobs' = {}
           /\ Len(calls') = Len(calls)

C4_Stopped ==
    outcome = "stopped" =>
        /\ isResumable
        /\ jobs = {} /\ PendingCalls = {}
        /\ Len(Sent) < Len(originalData)
        /\ SkuSet(originalData) \ SkuSet(processedData) # {}

C4_CancelStopsRun ==
    /\ []C4_Stopped
    /\ [][C4_StopStep]_vars
    /\ [][(outcome = "stopped" /\ outcome' = "stopped") => calls' = calls]_vars

C4_Witness ==
    /\ outcome = "stopped"
    /\ isCancelledRef
    /\ Len(calls) = 1
    /\ Len(processedData) = BATCH_SIZE
    /\ Len(originalData) = BATCH_SIZE + 2

----------------------------------------------------------------------------
(* C5: at most one batch request is pending at any time, and it is the last *)
(* one issued; every request before it has been answered and its records    *)
(* are in processedData; the requests of a run are its chunks in chunk      *)
(* order and currentRunResults holds the chunks before the pending one, in  *)
(* that order.                                                              *)
C5_OneCallAtATime ==
    /\ Cardinality(PendingCalls) <= 1
    /\ PendingCalls \subseteq {Len(calls)}
    /\ outcome # "idle" =>
          \A k \in 1..(Len(calls) - 1) :
              /\ calls[k].status = "ok"
              /\ SkuSet(calls[k].request) \subseteq SkuSet(processedData)
    /\ \A job \in jobs :
          /\ PendingCalls = {job.i}
          /\ \A k \in 1..Len(calls) : calls[k].request = BatchRequest(job.chunks[k])
          /\ Skus(job.currentRunResults) = Skus(Flatten(SubSeq(job.chunks, 1, job.i - 1)))

\* the second request of a run is pending, the first chunk is merged
C5_Witness ==
    /\ outcome = "running"
    /\ PendingCalls = {2}
    /\ calls[1].status = "ok"
    /\ Len(processedData) = BATCH_SIZE

----------------------------------------------------------------------------
(* C6: at most one bulk job exists at any time and it exists exactly while  *)
(* the run is running; Generate and Resume are only taken when no run is    *)
(* running and no job exists; the outcome only changes to completed,        *)
(* stopped, quota_exceeded or failed from running.                          *)
C6_Exclusive ==
    /\ Cardinality(jobs) <= 1
    /\ (jobs # {}) <=> (outcome = "running")
    /\ isLoading <=> (outcome = "running")

C6_StartStep ==
    (HandleGenerate \/ HandleResume) =>
        /\ outcome \in {"idle"} \cup Terminal
        /\ jobs = {}
        /\ PendingCalls = {}

C6_SettleStep ==
    (outcome' \in Terminal /\ outcome # "running") =>
        outcome' = outcome /\ jobs' = jobs /\ calls' = calls

C6_SingleJob == []C6_Exclusive /\ [][C6_StartStep]_vars /\ [][C6_SettleStep]_vars

\* a run started from a terminal state: a stopped run resumed
C6_Witness ==
    /\ outcome = "running"
    /\ runKind = "resume"
    /\ Cardinality(jobs) = 1
    /\ Len(startSnapshot) = BATCH_SIZE


----------------------------------------------------------------------------
(* C7: in every run, the step that merges a chunk leaves a stored session   *)
(* whose processedData holds the keys of that chunk, and the step that      *)
(* settles the run leaves a stored session equal to the snapshot of the     *)
(* current file, originalData, processedData and isResumable.               *)
C7_MergeStep ==
    (outcome = "running" /\ Len(Answered') > Len(Answered)) =>
        /\ localStorage' # Null
        /\ SkuSet(Answered') \subseteq SkuSet(localStorage'.processedData)

C7_SettleStep ==
    (outcome = "running" /\ outcome' \in Terminal) =>
        localStorage' = SessionJSON(file', originalData', processedData', isResumable')

C7_SnapshotAfterMergeAndSettlement == [][C7_MergeStep]_vars /\ [][C7_SettleStep]_vars

----------------------------------------------------------------------------
(* C8: when the pending batch call is rejected with the client's error for  *)
(* a non-quota failure, the same step settles the run as failed with        *)
(* isResumable false and the thrown message in error, leaves no job and no  *)
(* pending call, adds no request, and leaves processedData, with the        *)
(* records of the chunks answered before, as it was; while the outcome      *)
(* stays failed no request is added.                                        *)
C8_CallFails ==
    /\ outcome = "running"
    /\ Len(calls') = Len(calls)
    /\ calls'[Len(calls')].status = "Failed to generate meta content"

C8_FailStep ==
    C8_CallFails =>
        /\ outcome' = "failed"
        /\ ~isResumable'
        /\ ~isLoading'
        /\ error'.kind = "detail"
        /\ error'.thrown = [tag |-> calls'[Len(calls')].status,
                             detail |-> calls'[Len(calls')].signal.wording]
        /\ jobs' = {}
        /\ PendingCalls' = {}
        /\ processedData' = processedData
        /\ SkuSet(startSnapshot) \cup SkuSet(Answered) \subseteq SkuSet(processedData')

C8_FailureAborts ==
    /\ [][C8_FailStep]_vars
    /\ [][(outcome = "failed" /\ outcome' = "failed") => calls' = calls]_vars
    /\ [](outcome = "failed" => ~isResumable /\ jobs = {} /\ ~ResumeButtonEnabled)

\* the second chunk failed: the first chunk's records are still there
C8_Witness ==
    /\ outcome = "failed"
    /\ Len(calls) = 2
    /\ calls[1].status = "ok"
    /\ error.kind = "detail"
    /\ Len(processedData) = BATCH_SIZE
    /\ ~isResumable

----------------------------------------------------------------------------
(* C9: when the call for the last chunk of a run is answered, the same step *)
(* settles the run as completed, the completion message reports the sum of  *)
(* the token counts of the calls of this run, and the stored session is the *)
(* snapshot of the current state with isResumable false.                    *)
RECURSIVE SumTokens(_)
SumTokens(log) == IF Len(log) = 0 THEN 0 ELSE Head(log).tokens + SumTokens(Tail(log))

C9_LastChunkAnswered ==
    /\ outcome = "running"
    /\ \E job \in jobs : job.i = Len(job.chunks)
    /\ Len(calls') = Len(calls)
    /\ calls'[Len(calls')].status = "ok"

C9_CompleteStep ==
    C9_LastChunkAnswered =>
        /\ outcome' = "completed"
        /\ ~isLoading'
        /\ ~isResumable'
        /\ progressMessage' = [kind |-> "complete", total |-> Len(originalData'),
                               tokens |-> SumTokens(calls')]
        /\ localStorage' # Null
        /\ localStorage'.isResumable = FALSE
        /\ Skus(localStorage'.processedData) = Skus(processedData')

C9_Completion ==
    /\ [][C9_CompleteStep]_vars
    /\ [][(outcome' = "completed" /\ outcome # "completed") => C9_LastChunkAnswered]_vars

\* a fresh run of two chunks completed, with 7 and 5 tokens
C9_Witness ==
    /\ outcome = "completed"
    /\ Len(calls) = 2
    /\ calls[1].tokens # calls[2].tokens
    /\ progressMessage = [kind |-> "complete", total |-> BATCH_SIZE + 2, tokens |-> 12]
    /\ localStorage # Null
    /\ ~localStorage.isResumable

----------------------------------------------------------------------------
(* C10: a step of Generate leaves the cancellation flag false and           *)
(* processedData empty and starts a run with its first request pending; a   *)
(* step of Resume leaves the flag false and processedData as it was and     *)
(* starts a run with its first request pending; during and after a fresh    *)
(* run the keys of processedData are keys answered in that run.             *)
C10_StartStep ==
    /\ HandleGenerate =>
          /\ ~isCancelledRef'
          /\ processedData' = <<>>
          /\ startSnapshot' = <<>>
          /\ outcome' = "running"
          /\ PendingCalls' = {1}
    /\ HandleResume =>
          /\ ~isCancelledRef'
          /\ processedData' = processedData
          /\ startSnapshot' = processedData
          /\ outcome' = "running"
          /\ PendingCalls' = {1}

C10_FreshRunOnly ==
    (runKind = "fresh" /\ outcome # "idle") =>
        /\ startSnapshot = <<>>
        /\ SkuSet(processedData) \subseteq SkuSet(Answered)

C10_Resumed ==
    (runKind = "resume" /\ outcome # "idle") =>
        SkuSet(startSnapshot) \subseteq SkuSet(processedData)

C10_StartResets == [][C10_StartStep]_vars /\ []C10_FreshRunOnly /\ []C10_Resumed

\* a stopped run resumed: the flag is false again, the 15 records are kept
C10_Witness ==
    /\ runKind = "resume"
    /\ outcome = "running"
    /\ ~isCancelledRef
    /\ PendingCalls = {1}
    /\ Len(startSnapshot) = BATCH_SIZE
    /\ processedData = startSnapshot
    /\ localStorage # Null
    /\ Len(localStorage.processedData) = BATCH_SIZE

----------------------------------------------------------------------------
(* C11: every batch call that resolved returned one result per record of    *)
(* its request, in the order of the request and with that record's key; a   *)
(* record whose key the service left out has the 'Error: No AI Response'    *)
(* result, a record whose key the service answered has the service's item,  *)
(* and no key outside the request is among the results.                     *)
C11_OneResultPerRecord ==
    \A k \in 1..Len(calls) :
        calls[k].status = "ok" =>
            LET request == calls[k].request
                received == calls[k].received
                results == calls[k].results
            IN  /\ Len(results) = Len(request)
                /\ Skus(results) = Skus(request)
                /\ SkuSet(results) \subseteq SkuSet(request)
                /\ \A j \in 1..Len(request) :
                      IF request[j].sku \in SkuSet(received)
                      THEN \E i \in 1..Len(received) : results[j] = received[i]
                      ELSE results[j] = [sku |-> request[j].sku,
                                         metaTitle |-> NoAIResponseTitle,
                                         metaDescription |-> NoAIResponseDescription]

\* a full chunk answered without its last record and with a foreign key
C11_Witness ==
    /\ Len(calls) >= 1
    /\ calls[1].status = "ok"
    /\ Len(calls[1].request) = BATCH_SIZE
    /\ Len(calls[1].received) = BATCH_SIZE
    /\ ForeignSku \in SkuSet(calls[1].received)
    /\ calls[1].results[BATCH_SIZE].metaTitle = NoAIResponseTitle
    /\ Len(calls[1].results) = BATCH_SIZE

----------------------------------------------------------------------------
(* C12: every batch call and every regenerate call that was rejected was    *)
(* rejected with one of the two errors of the client, the quota error if    *)
(* and only if what was raised has the status RESOURCE_EXHAUSTED or a       *)
(* wording with RESOURCE_EXHAUSTED or quota; the step in which a batch call *)
(* is rejected leaves isResumable true exactly for the quota error.         *)
C12_ResourceExhaustion(signal) ==
    \/ signal.status = "RESOURCE_EXHAUSTED"
    \/ signal.wording \in {"RESOURCE_EXHAUSTED", "quota"}

C12_Typed(call) ==
    call.signal # Null =>
        /\ call.status \in {"[QUOTA_EXCEEDED]", "Failed to generate meta content"}
        /\ call.status = "[QUOTA_EXCEEDED]" <=> C12_ResourceExhaustion(call.signal)

C12_AllTyped ==
    /\ \A k \in 1..Len(calls) : C12_Typed(calls[k])
    /\ \A call \in regenCalls : C12_Typed(call)
    /\ \A k \in 1..Len(calls) :
          calls[k].status \notin {"pending", "ok"} => calls[k].signal # Null
    /\ \A call \in regenCalls :
          call.status \notin {"pending", "ok"} => call.signal # Null

C12_RejectStep ==
    (outcome = "running" /\ Len(calls') = Len(calls)
        /\ calls'[Len(calls')].signal # Null) =>
        /\ isResumable' <=> C12_ResourceExhaustion(calls'[Len(calls')].signal)
        /\ outcome' = IF C12_ResourceExhaustion(calls'[Len(calls')].signal)
                      THEN "quota_exceeded" ELSE "failed"

C12_TypedFailures ==
    /\ []C12_AllTyped
    /\ [][C12_RejectStep]_vars
    /\ [](outcome = "quota_exceeded" => isResumable)
    /\ [](outcome = "failed" => ~isResumable)

\* a run ended by a quota wording without a status, after a regenerate that
\* failed for another reason
C12_Witness ==
    /\ outcome = "quota_exceeded"
    /\ isResumable
    /\ calls[Len(calls)].signal = [status |-> "none", wording |-> "quota"]
    /\ calls[Len(calls)].status = "[QUOTA_EXCEEDED]"
    /\ \E call \in regenCalls :
          /\ call.status = "Failed to generate meta content"
          /\ call.signal.status = "INTERNAL"

----------------------------------------------------------------------------
----------------------------------------------------------------------------
(* C14: the step in which a batch call is settled by a reply that is not an *)
(* array, or by an array with an item that lacks the title or the           *)
(* description, rejects the call with the non-quota error, settles the run  *)
(* as failed and leaves processedData as it was.                            *)
C14_LacksField(item) ==
    item.metaTitle = Undefined \/ item.metaDescription = Undefined

C14_NonConforming(call) ==
    \/ call.signal = NotArrayError
    \/ \E i \in 1..Len(call.received) : C14_LacksField(call.received[i])

C14_SettledByNonConforming ==
    /\ outcome = "running"
    /\ Len(calls') = Len(calls)
    /\ calls'[Len(calls')].status # "pending"
    /\ C14_NonConforming(calls'[Len(calls')])

C14_NonConformingRejected ==
    [][C14_SettledByNonConforming =>
          /\ calls'[Len(calls')].status = "Failed to generate meta content"
          /\ outcome' = "failed"
          /\ processedData' = processedData]_vars

----------------------------------------------------------------------------
(* Steps in which the outstanding regenerate call for a sku settles *)

RegenerateSettles(sku, status) ==
    /\ \E call \in regenCalls : call.sku = sku /\ call.status = "pending"
    /\ \E call \in regenCalls' : call.sku = sku /\ call.status = status

\* row k is as before, but for its 'Meta Title' and 'Meta Description'
SameButMeta(before, after) ==
    /\ DOMAIN after = (DOMAIN before) \cup MetaFields
    /\ \A f \in (DOMAIN before) \ MetaFields : after[f] = before[f]

\* the skus with an outstanding regenerate call
OutstandingSkus == {call.sku : call \in {c \in regenCalls : c.status = "pending"}}

----------------------------------------------------------------------------
(* C15: the step in which a regenerate of sku X is rejected with the        *)
(* non-quota error leaves processedData with the same length, every record  *)
(* with another sku as it was, and every record with sku X with             *)
(* 'Error: Regeneration failed' / 'Please try again or edit manually.' in   *)
(* its generated fields and its other fields as they were; these texts      *)
(* differ from those of the batch fallback.                                 *)
C15_FailStep ==
    \A sku \in OutstandingSkus :
        RegenerateSettles(sku, "Failed to generate meta content") =>
            /\ Len(processedData') = Len(processedData)
            /\ \A k \in 1..Len(processedData) :
                  IF processedData[k].sku = sku
                  THEN /\ processedData'[k].MetaTitle = RegenerationFailedTitle
                       /\ processedData'[k].MetaDescription = RegenerationFailedDescription
                       /\ SameButMeta(processedData[k], processedData'[k])
                  ELSE processedData'[k] = processedData[k]

C15_RegenerateFailureIsolated ==
    /\ [][C15_FailStep]_vars
    /\ [](/\ RegenerationFailedTitle # NoAIResponseTitle
          /\ RegenerationFailedDescription # NoAIResponseDescription)

\* a completed run of 17 records, then the regenerate of its first row failed
C15_Witness ==
    /\ outcome = "completed"
    /\ Len(processedData) = BATCH_SIZE + 2
    /\ Len(originalData) = BATCH_SIZE + 2
    /\ \E call \in regenCalls :
          call.sku = "1" /\ call.status = "Failed to generate meta content"
    /\ processedData[1].MetaTitle = RegenerationFailedTitle
    /\ processedData[1].MetaDescription = RegenerationFailedDescription
    /\ processedData[2].MetaTitle = "gen A"

----------------------------------------------------------------------------
(* C16: the step in which a regenerate of sku X is rejected with the quota  *)
(* error leaves processedData as it was and puts the quota message for X in *)
(* error.                                                                   *)
C16_QuotaStep ==
    \A sku \in OutstandingSkus :
        RegenerateSettles(sku, "[QUOTA_EXCEEDED]") =>
            /\ processedData' = processedData
            /\ error' = [kind |-> "regenerate quota", sku |-> sku]

C16_RegenerateQuotaKeepsRows == [][C16_QuotaStep]_vars

\* the regenerate of the first row of a completed run hit the quota: the row
\* still has the generated text
C16_Witness ==
    /\ outcome = "completed"
    /\ Len(processedData) = BATCH_SIZE + 2
    /\ \E call \in regenCalls : call.sku = "1" /\ call.status = "[QUOTA_EXCEEDED]"
    /\ error = [kind |-> "regenerate quota", sku |-> "1"]
    /\ processedData[1].MetaTitle = "gen A"
    /\ processedData[1].MetaDescription = "gen A"

----------------------------------------------------------------------------
(* C17: the step in which a regenerate of sku X resolves leaves             *)
(* processedData with the same length and order, every record with another  *)
(* sku as it was, and in every record with sku X all fields but             *)
(* 'Meta Title' and 'Meta Description' as they were.                        *)
C17_SuccessStep ==
    \A sku \in OutstandingSkus :
        RegenerateSettles(sku, "ok") =>
            /\ Len(processedData') = Len(processedData)
            /\ Skus(processedData') = Skus(processedData)
            /\ \A k \in 1..Len(processedData) :
                  IF processedData[k].sku = sku
                  THEN SameButMeta(processedData[k], processedData'[k])
                  ELSE processedData'[k] = processedData[k]

C17_RegenerateSuccessFrame == [][C17_SuccessStep]_vars

\* the first row of a completed run of 17 records regenerated
C17_Witness ==
    /\ outcome = "completed"
    /\ Len(processedData) = BATCH_SIZE + 2
    /\ \E call \in regenCalls : call.sku = "1" /\ call.status = "ok"
    /\ processedData[1].MetaTitle = "regen"
    /\ processedData[1].MetaDescription = "regen"
    /\ processedData[1].name = "1"
    /\ processedData[2].MetaTitle = "gen A"

----------------------------------------------------------------------------
(* C18: regeneratingSkus holds exactly the skus with an outstanding         *)
(* regenerate call: a sku enters it in the step that starts the call and    *)
(* leaves it in the step that settles the call, however it settles; with no *)
(* call outstanding the set is empty.                                       *)
C18_InFlight == regeneratingSkus = OutstandingSkus

C18_SettleStep ==
    \A sku \in OutstandingSkus :
        (\E status \in {"ok", "[QUOTA_EXCEEDED]", "Failed to generate meta content"} :
            RegenerateSettles(sku, status))
            => sku \in regeneratingSkus /\ sku \notin regeneratingSkus'

C18_InFlightExactly == []C18_InFlight /\ [][C18_SettleStep]_vars

\* a regenerate was rejected with the non-quota error and nothing is in flight
C18_Witness ==
    /\ regeneratingSkus = {}
    /\ \E call \in regenCalls : call.status = "Failed to generate meta content"
    /\ Len(processedData) > 0
    /\ processedData[1].MetaTitle = RegenerationFailedTitle

----------------------------------------------------------------------------
(* C19: a step that starts a regenerate call or settles one, in any way,    *)
(* leaves the state of the bulk job as it was: the outcome and the kind of  *)
(* the run, the job and its requests, isLoading, isResumable, progress,     *)
(* progressMessage and the cancellation flag.                               *)
C19_RegenerateStep ==
    \/ OutstandingSkus' \ OutstandingSkus # {}
    \/ \E sku \in OutstandingSkus :
          \E status \in {"ok", "[QUOTA_EXCEEDED]", "Failed to generate meta content"} :
              RegenerateSettles(sku, status)

C19_JobUntouched ==
    [][C19_RegenerateStep =>
          UNCHANGED <<outcome, runKind, jobs, calls, isLoading, isResumable, progress,
                      progressMessage, isCancelledRef, startSnapshot>>]_vars

\* a regenerate hit the quota while the bulk run was running with its second
\* request pending: the run is still running and not resumable
C19_Witness ==
    /\ outcome = "running"
    /\ PendingCalls = {2}
    /\ ~isResumable
    /\ isLoading
    /\ \E call \in regenCalls : call.status = "[QUOTA_EXCEEDED]"
    /\ error.kind = "regenerate quota"

----------------------------------------------------------------------------
(* C20: a step of handleCellChange(sku, field, value) leaves processedData  *)
(* with the same length, every record with another sku as it was, and every *)
(* record with that sku with the value in the field and its other fields as *)
(* they were; it adds no request to the service and leaves isResumable,     *)
(* progress and the state of the bulk job as they were.                     *)
C20_EditStep ==
    \A sku \in {TableData[t].sku : t \in RowTargets(TableData)},
       field \in MetaFields, value \in EditTexts :
        HandleCellChange(sku, field, value) =>
            /\ Len(processedData') = Len(processedData)
            /\ \A k \in 1..Len(processedData) :
                  IF processedData[k].sku = sku
                  THEN /\ processedData'[k][field] = value
                       /\ DOMAIN processedData'[k] = (DOMAIN processedData[k]) \cup {field}
                       /\ \A f \in (DOMAIN processedData[k]) \ {field} :
                             processedData'[k][f] = processedData[k][f]
                  ELSE processedData'[k] = processedData[k]
            /\ UNCHANGED <<calls, regenCalls, regeneratingSkus, jobs, outcome, runKind,
                           isLoading, isResumable, progress, progressMessage,
                           isCancelledRef, originalData, error>>

C20_EditIsLocal == [][C20_EditStep]_vars

\* the title of the first row of a completed run of 17 records was edited
C20_Witness ==
    /\ outcome = "completed"
    /\ Len(processedData) = BATCH_SIZE + 2
    /\ processedData[1].MetaTitle = "typed"
    /\ processedData[1].MetaDescription = "gen A"
    /\ processedData[2].MetaTitle = "gen A"
    /\ regenCalls = {}

----------------------------------------------------------------------------
(* Steps of handleCellChange that change a processed record *)

EditApplied(sku, field, value) ==
    HandleCellChange(sku, field, value) /\ processedData' # processedData

\* the skus of the rows the user works on
TargetSkus == {TableData[t].sku : t \in RowTargets(TableData)}

----------------------------------------------------------------------------
(* C21: a step of handleCellChange that changes a processed record, after a *)
(* completed run, after a restored session or during a run, leaves a stored *)
(* session whose processedData is the edited processedData.                 *)
C21_EditStep ==
    \A sku \in TargetSkus, field \in MetaFields, value \in EditTexts :
        EditApplied(sku, field, value) =>
            /\ localStorage' # Null
            /\ localStorage'.processedData = SeqMap(JSONObject, processedData')

C21_EditPersisted == [][C21_EditStep]_vars

----------------------------------------------------------------------------
(* C22: after a step of handleCellChange(sku, field, value) that changed    *)
(* processedData, applying its update again gives the processedData of that *)
(* step, and the stored session is what the sync effect would store again.  *)
C22_EditStep ==
    \A sku \in TargetSkus, field \in MetaFields, value \in EditTexts :
        EditApplied(sku, field, value) =>
            LET again == CellChange(processedData', sku, field, value)
            IN  /\ again = processedData'
                /\ SyncEffect(TRUE, Render(file, originalData, again, isResumable),
                              localStorage') = localStorage'

C22_EditIdempotent == [][C22_EditStep]_vars

\* the title of the first row was edited and stored; the same edit again
\* would find the value there, an edit of the second row would not
C22_Witness ==
    /\ Len(processedData) = BATCH_SIZE + 2
    /\ processedData[1].MetaTitle = "typed"
    /\ localStorage # Null
    /\ localStorage.processedData[1].MetaTitle = "typed"
    /\ CellChange(processedData, "1", "MetaTitle", "typed") = processedData
    /\ CellChange(processedData, "2", "MetaTitle", "typed") # processedData

----------------------------------------------------------------------------
\* The step in which the awaited call of a run returns and its chunk is merged
ChunkMerged ==
    /\ calls # <<>>
    /\ calls[Len(calls)].status = "pending"
    /\ Len(calls') >= Len(calls)
    /\ calls'[Len(calls)].status = "ok"

\* The rows of processedData whose sku is not in the chunk being merged
OutsideChunk ==
    {k \in 1..Len(processedData) :
        processedData[k].sku \notin SkuSet(calls[Len(calls)].request)}

(* C23: when a chunk of a run is merged, every processed record whose sku is *)
(* not in that chunk (a record of an earlier chunk, edited or regenerated    *)
(* since) is in processedData after the merge with the values it had before. *)
C23_MergeStep ==
    ChunkMerged =>
        \A k \in OutsideChunk :
            \E j \in 1..Len(processedData') : processedData'[j] = processedData[k]

C23_EarlierKeysSurvive == [][C23_MergeStep]_vars

----------------------------------------------------------------------------
\* The row holds both generated fields with a string in each
FullyGenerated(row) ==
    \A field \in MetaFields : field \in DOMAIN row /\ row[field] # Undefined

(* C24: in every reachable state every record of processedData holds a      *)
(* 'Meta Title' and a 'Meta Description' that are strings, and so does every *)
(* processed record of the stored session.                                  *)
C24_GeneratedFieldsDefined ==
    /\ \A k \in 1..Len(processedData) : FullyGenerated(processedData[k])
    /\ localStorage # Null =>
          \A k \in 1..Len(localStorage.processedData) :
              FullyGenerated(localStorage.processedData[k])

----------------------------------------------------------------------------
\* s can be had from t by leaving elements out
RECURSIVE IsSubsequence(_, _)
IsSubsequence(s, t) ==
    IF s = <<>> THEN TRUE
    ELSE IF t = <<>> THEN FALSE
    ELSE IF Head(s) = Head(t) THEN IsSubsequence(Tail(s), Tail(t))
    ELSE IsSubsequence(s, Tail(t))

(* C25: in every reachable state every sku of processedData is a sku of      *)
(* originalData, the skus of processedData are in the order they have in     *)
(* originalData, and since the start of a run processedData holds only       *)
(* records that were there at the start or that a call of the run answered.  *)
C25_NoOrphansInOrder ==
    /\ SkuSet(processedData) \subseteq SkuSet(originalData)
    /\ IsSubsequence(Skus(processedData), Skus(originalData))
    /\ runKind # "none" =>
          SkuSet(processedData) \subseteq SkuSet(startSnapshot) \cup SkuSet(Answered)

\* a run merged the first chunk and was stopped; the resumed run has requested
\* the rest of the sheet
C25_Witness ==
    /\ runKind = "resume"
    /\ jobs # {}
    /\ Len(originalData) = BATCH_SIZE + 2
    /\ Skus(processedData) = SubSeq(Skus(originalData), 1, BATCH_SIZE)

----------------------------------------------------------------------------
\* progress as a fraction: a is at most b
FractionLeq(a, b) == a.num * b.den <= b.num * a.den

(* C26: the step that merges a chunk of a fresh or resumed run sets progress *)
(* to Len(processedData) / Len(originalData), not below the progress before  *)
(* the step and not above 100%; a step that completes a run leaves 100%.     *)
C26_MergeStep ==
    /\ ChunkMerged =>
          /\ progress'.num * Len(originalData) = Len(processedData') * progress'.den
          /\ FractionLeq(progress, progress')
          /\ progress'.num <= progress'.den
    /\ (outcome # "completed" /\ outcome' = "completed") =>
          progress'.num = progress'.den

----------------------------------------------------------------------------
(* C27: a stop requested while the call of a chunk is in flight leaves the   *)
(* call pending and the run loading; when that call returns with the flag    *)
(* set, the records of its chunk are in processedData, no further request is *)
(* made, and the run settles as stopped if chunks remain and as completed if *)
(* the chunk was the last.                                                   *)
C27_StopRequested ==
    (~isCancelledRef /\ isCancelledRef' /\ PendingCalls # {}) =>
        /\ calls' = calls
        /\ jobs' = jobs
        /\ processedData' = processedData
        /\ isLoading'
        /\ outcome' = "running"

C27_CallReturns ==
    (ChunkMerged /\ isCancelledRef) =>
        /\ SkuSet(calls[Len(calls)].request) \subseteq SkuSet(processedData')
        /\ Len(calls') = Len(calls)
        /\ jobs' = {}
        /\ ~isLoading'
        /\ \A job \in jobs :
              outcome' = IF job.i < Len(job.chunks) THEN "stopped" ELSE "completed"

C27_CancelAtBoundary ==
    /\ [][C27_StopRequested]_vars
    /\ [][C27_CallReturns]_vars

\* stop was requested during the first call of a fresh run over two chunks;
\* the call was answered, its chunk is merged, and nothing else was sent
C27_Witness ==
    /\ isCancelledRef
    /\ runKind = "fresh"
    /\ outcome = "stopped"
    /\ Len(calls) = 1
    /\ calls[1].status = "ok"
    /\ SkuSet(calls[1].request) = SkuSet(processedData)
    /\ Len(processedData) < Len(originalData)

----------------------------------------------------------------------------
(* C28: a step after which the stored session is gone is a step of           *)
(* handleDismissSession or of handleFileSelect.                              *)
C28_RemovalStep ==
    (localStorage # Null /\ localStorage' = Null) =>
        \/ HandleDismissSession
        \/ \E name \in FileNames : HandleFileSelect(name)

C28_RemovedOnlyByDismissOrUpload == [][C28_RemovalStep]_vars

----------------------------------------------------------------------------
\* The step in which an upload ends in an error
UploadFails ==
    /\ reader # Null
    /\ reader' = Null
    /\ error'.kind = "upload"

(* C29: when an upload ends in a parse or validation error, originalData,   *)
(* processedData, isResumable and the stored session are what they were     *)
(* before the file was selected.                                            *)
C29_FailStep ==
    UploadFails =>
        [originalData |-> originalData', processedData |-> processedData',
         isResumable |-> isResumable', localStorage |-> localStorage'] = uploadSnapshot

C29_FailedUploadChangesNothing == [][C29_FailStep]_vars

----------------------------------------------------------------------------
\* What looking at the first row alone gives for a sheet: the error, or
\* NoError for acceptance
C30_Expected(sheet) ==
    IF Len(sheet) = 0 THEN NoError
    ELSE IF {"sku", "name"} \ DOMAIN sheet[1] # {} THEN MissingColumns
    ELSE IF sheet[1].sku = "" THEN MissingSkuValue
    ELSE IF sheet[1].name = "" THEN MissingNameValue
    ELSE NoError

(* C30: a step of reader.onload on a parsed sheet sets the missing-columns   *)
(* error if the first row lacks 'sku' or 'name', the missing-value error if  *)
(* the first row's sku or name is empty, whatever the later rows hold, and   *)
(* leaves originalData alone; otherwise it sets originalData to the whole    *)
(* sheet, whatever the later rows hold, and sets no error.                   *)
C30_LoadStep ==
    \A sheet \in Sheets :
        (ReaderOnLoadAccepts(sheet) \/ ReaderOnLoadInvalid(sheet)) =>
            IF C30_Expected(sheet) = NoError
            THEN originalData' = sheet /\ error' = error
            ELSE error' = C30_Expected(sheet) /\ originalData' = originalData

C30_FirstRowOnly == [][C30_LoadStep]_vars

\* a sheet whose second row has an empty sku was accepted whole
C30_Witness ==
    /\ reader = Null
    /\ error = NoError
    /\ Len(originalData) = 2
    /\ originalData[1].sku # "" /\ originalData[2].sku = ""

----------------------------------------------------------------------------
(* C31: no record of processedData has an empty sku, and no result of a      *)
(* batch call that resolved carries generated text for an empty sku.         *)
C31_EmptyKeyDropped ==
    /\ \A k \in 1..Len(processedData) : processedData[k].sku # ""
    /\ \A c \in 1..Len(calls) :
          calls[c].status = "ok" =>
              \A j \in 1..Len(calls[c].results) :
                  calls[c].results[j].sku = "" =>
                      calls[c].results[j].metaTitle = NoAIResponseTitle

----------------------------------------------------------------------------
\* The records an activation of runGenerationProcess of that kind was called with
JobRecords(job, kind) ==
    IF kind = "fresh" THEN job.closure.originalData
    ELSE RemainingProducts(job.closure.originalData, job.closure.processedData)

\* The chunks of the job are the consecutive slices of its records
C32_Sliced(job, kind) ==
    LET n == Len(JobRecords(job, kind))
        count == Len(job.chunks)
    IN  /\ n >= 1
        /\ (count - 1) * BATCH_SIZE < n /\ n <= count * BATCH_SIZE
        /\ \A c \in 1..(count - 1) : Len(job.chunks[c]) = BATCH_SIZE
        /\ Len(job.chunks[count]) \in 1..BATCH_SIZE
        /\ Flatten(job.chunks) = JobRecords(job, kind)

(* C32: the chunks of a run that starts, and of a run that goes on to its    *)
(* next chunk, are the consecutive slices of BATCH_SIZE records of the list  *)
(* the run was called with: their number is the list's length divided by     *)
(* BATCH_SIZE, rounded up; every chunk but the last holds BATCH_SIZE         *)
(* records, the last between 1 and BATCH_SIZE; and their concatenation is    *)
(* the list.                                                                 *)
C32_ConsecutiveChunks ==
    [][\A job \in jobs' : job \notin jobs => C32_Sliced(job, runKind')]_vars

\* a fresh run over a sheet of one full chunk and two more records
C32_Witness ==
    \E job \in jobs :
        /\ runKind = "fresh"
        /\ Len(job.closure.originalData) = BATCH_SIZE + 2
        /\ Len(job.chunks) = 2
        /\ Len(job.chunks[1]) = BATCH_SIZE
        /\ Len(job.chunks[2]) = 2

----------------------------------------------------------------------------
\* The call in flight has been rejected in this step
C33_CallRejected ==
    /\ Len(calls) > 0 /\ Len(calls') = Len(calls)
    /\ calls[Len(calls)].status = "pending"
    /\ calls'[Len(calls)].status \notin {"pending", "ok"}

\* The rejection ends the run with one message on screen
C33_ErrorSurfaced ==
    C33_CallRejected =>
        /\ error' # NoError
        /\ outcome' \in {"failed", "quota_exceeded"}
        /\ ~isLoading'
        /\ jobs' = {}

(* C33: when every awaited generation call settles, a run that has started  *)
(* comes to a terminal outcome with the loading flag cleared, unless the    *)
(* page is reloaded first (outcome "idle"); and a rejected call ends the    *)
(* run in the same step with one error message set.                         *)
C33_RunSettles ==
    /\ (outcome = "running") ~> (~isLoading /\ outcome \in Terminal \cup {"idle"})
    /\ [][C33_ErrorSurfaced]_vars

\* a run that failed on its second chunk, after the first was merged
C33_Witness ==
    /\ outcome = "failed"
    /\ ~isLoading
    /\ error # NoError
    /\ Len(calls) = 2
    /\ calls[1].status = "ok"

----------------------------------------------------------------------------
(* C34: a stored session whose processedData does not hold every sku of its *)
(* originalData has isResumable TRUE.                                       *)
C34_PartialIsResumable ==
    localStorage # Null =>
        (~(SkuSet(localStorage.originalData) \subseteq SkuSet(localStorage.processedData))
            => localStorage.isResumable)

----------------------------------------------------------------------------
\* The call for the last chunk of the run returns while the flag is set
C35_FinalCallReturns ==
    /\ isCancelledRef
    /\ ChunkMerged
    /\ \A job \in jobs : job.i = Len(job.chunks)

(* C35: when the call for the last chunk of a run returns with the           *)
(* cancellation flag set, the run settles as completed, not as stopped:      *)
(* isResumable is FALSE, nothing is loading or pending, and processedData    *)
(* holds every sku of originalData.                                          *)
C35_StopDuringFinalChunk ==
    [][C35_FinalCallReturns =>
          /\ outcome' = "completed"
          /\ ~isResumable'
          /\ ~isLoading'
          /\ jobs' = {} /\ calls'[Len(calls')].status = "ok"
          /\ SkuSet(originalData) \subseteq SkuSet(processedData')]_vars

\* stop was requested during the second and last call of a fresh run, which
\* completed
C35_Witness ==
    /\ isCancelledRef
    /\ runKind = "fresh"
    /\ outcome = "completed"
    /\ ~isResumable
    /\ Len(calls) = 2 /\ calls[2].status = "ok"
    /\ Len(processedData) = BATCH_SIZE + 2

----------------------------------------------------------------------------
(* C36: when a chunk of a resumed run is merged, every record whose sku was  *)
(* in processedData when the run was resumed is in processedData after the   *)
(* merge as it was before it, with the values edits or regenerates gave it;  *)
(* the chunk holds no such sku, and the skus the merge adds are those of the *)
(* chunk.                                                                    *)
C36_MergeStep ==
    (runKind = "resume" /\ ChunkMerged) =>
        LET chunk == SkuSet(calls[Len(calls)].request)
            kept == {k \in 1..Len(processedData) :
                        processedData[k].sku \in SkuSet(startSnapshot)}
        IN  /\ chunk \cap SkuSet(startSnapshot) = {}
            /\ \A k \in kept :
                  \E j \in 1..Len(processedData') : processedData'[j] = processedData[k]
            /\ Len(SelectSeq(processedData', LAMBDA p : p.sku \in SkuSet(startSnapshot)))
                  = Cardinality(kept)
            /\ SkuSet(processedData') = SkuSet(processedData) \cup chunk

C36_ResumeKeepsProcessed == [][C36_MergeStep]_vars

\* a record was edited after the run stopped; the run was resumed and its
\* chunk is merged, with the edited value still there
C36_Witness ==
    /\ runKind = "resume"
    /\ calls # <<>> /\ calls[Len(calls)].status = "ok"
    /\ Len(startSnapshot) = BATCH_SIZE
    /\ Len(processedData) = BATCH_SIZE + 2
    /\ \E field \in MetaFields, value \in EditTexts :
          /\ startSnapshot[1][field] = value
          /\ processedData[1][field] = value

----------------------------------------------------------------------------
\* The run settles in this step with an outcome that stores the session
SavingSettlement ==
    /\ outcome = "running"
    /\ outcome' \in {"stopped", "quota_exceeded", "completed"}

\* What handleRestoreSession makes of a stored item on a page just loaded
Restored(item) ==
    [originalData |-> item.originalData,
     processedData |-> item.processedData,
     isResumable |-> item.isResumable]

(* C37: the session stored when a run settles as stopped, quota_exceeded or  *)
(* completed restores to the originalData, processedData and isResumable of  *)
(* the state the run settled in, in the same order.                          *)
C37_RoundTrip ==
    [][SavingSettlement =>
          /\ localStorage' # Null
          /\ Restored(localStorage') =
                [originalData |-> originalData', processedData |-> processedData',
                 isResumable |-> isResumable']]_vars

----------------------------------------------------------------------------
(* C38: the session stored by the step that settles a run as stopped,        *)
(* quota_exceeded or completed holds processedData as the merges of the run  *)
(* have left it, with the records of every chunk the run merged, and not the *)
(* processedData the run started with.                                       *)
C38_SettleStep ==
    SavingSettlement =>
        /\ localStorage' # Null
        /\ localStorage'.processedData = SeqMap(JSONObject, processedData')
        /\ SkuSet(Answered') \subseteq SkuSet(localStorage'.processedData)
        /\ Answered' # <<>> =>
              localStorage'.processedData # SeqMap(JSONObject, startSnapshot)

C38_SettlementStoresMerged == [][C38_SettleStep]_vars

\* a fresh run stopped after its first chunk: the stored session holds the
\* records of that chunk, where the run started with none
C38_Witness ==
    /\ outcome = "stopped"
    /\ runKind = "fresh"
    /\ startSnapshot = <<>>
    /\ localStorage # Null
    /\ Len(localStorage.processedData) = BATCH_SIZE
    /\ Skus(localStorage.processedData) = Skus(processedData)

----------------------------------------------------------------------------
\* handleResume is invoked when every sku of originalData is in processedData
C39_ResumeOverNothing ==
    /\ HandleResume
    /\ SkuSet(originalData) \subseteq SkuSet(processedData)

(* C39: a resume invoked when every sku of originalData is in processedData  *)
(* ends in the same step: no request is sent and no call is awaited, the run *)
(* is not loading, processedData is as it was and isResumable is FALSE.      *)
C39_EmptyRun ==
    [][C39_ResumeOverNothing =>
          /\ calls' = <<>>
          /\ jobs' = {}
          /\ ~isLoading'
          /\ outcome' = "completed"
          /\ processedData' = processedData
          /\ ~isResumable']_vars

\* the run over the sheet with the repeated sku was stopped after its first
\* chunk, which left no sku unprocessed, and was resumed
C39_Witness ==
    /\ runKind = "resume"
    /\ outcome = "completed"
    /\ calls = <<>>
    /\ progressMessage = [kind |-> "allDone"]
    /\ ~isResumable
    /\ originalData = RepeatedSkuSheet
    /\ Len(processedData) = BATCH_SIZE + 1

====
